---- MODULE Spec2Model ----
(***************************************************************************)
(* icvcs: a local snapshot-versioning tool (src/icvcs.py).                 *)
(*                                                                         *)
(* The state is what the tool keeps on disk: the working tree, the index   *)
(* document repo_data.json (files, directories, versions), the storages    *)
(* under .icvcs/versions and .icvcs/commits (with the reserved directory   *)
(* commits/latest), the journal commit_history.json, plus the wall clock,  *)
(* the configuration icvcs_config.json and the report printed by the last  *)
(* command.  A command that asks no     *)
(* question is one action.  init, commit and version create stop at        *)
(* input() with part of their work on disk: each is an action that runs    *)
(* the command up to its prompt, and one that answers the prompt (or       *)
(* closes the input) and runs the command to its end; the commands of      *)
(* other processes run in between.  At most one commit and one version     *)
(* create wait at their prompts at a time.  An uncaught Python exception   *)
(* ends the command where it is raised and leaves on disk whatever had     *)
(* been written before it.                                                 *)
(*                                                                         *)
(* A path is the sequence of its components: "sub/a.txt" is                *)
(* <<"sub", "a.txt">> and "./a.txt" is <<".", "a.txt">>.  A tree maps the  *)
(* normalised paths that exist in it to nodes (a file with its bytes, or a *)
(* directory).                                                             *)
(***************************************************************************)
EXTENDS Integers, Sequences, FiniteSets, TLC

VARIABLES wt, files, directories, versions, vstore, commits, journal, clock, out,
          initp, commitp, versionp, config

vars == <<wt, files, directories, versions, vstore, commits, journal, clock, out,
          initp, commitp, versionp, config>>

\* the processes that wait at a prompt
prompts == <<initp, commitp, versionp>>

(***************************************************************************)
(* Bounds of the model.                                                    *)
(***************************************************************************)
\* seconds the clock can show: commits get identifiers TimeIds[1..MaxClock]
MaxClock == 2
\* file contents are 1..MaxContent
MaxContent == 2
\* commit attempts stop once the journal holds this many records
MaxJournal == 2

Contents == 1..MaxContent

\* The bytes of a file are a number: 0 is the empty file, 1..MaxContent are
\* texts whose lines end in "\n", CrLf(c) and Cr(c) are the text c with its
\* line ends written "\r\n" and "\r", NotText is bytes that are no text in
\* the encoding open(path, "r") decodes with.
LineEnds == 10
CrLf(c) == c + LineEnds
Cr(c) == c + 2 * LineEnds
NotText == -1

\* f.read() of a file opened with open(path, "r"): universal newlines, the
\* line ends "\r\n" and "\r" are read as "\n"
ReadText(c) == IF c > LineEnds THEN c % LineEnds ELSE c

(***************************************************************************)
(* Names.                                                                  *)
(***************************************************************************)
LATEST == "latest"

\* what strftime('%Y%m%d%H%M%S') prints in second n of the run
TimeIds == <<"20240101000001", "20240101000002", "20240101000003",
             "20240101000004", "20240101000005", "20240101000006">>

CommitId(n) == TimeIds[n]

\* position of a directory name in sorted(os.listdir(COMMITS_DIR)): digits sort
\* before letters, so every timestamp stands before 'latest'
Rank(id) == IF id = LATEST THEN Len(TimeIds) + 1
            ELSE CHOOSE i \in 1..Len(TimeIds) : TimeIds[i] = id

DefaultAuthor == "Unknown"
DefaultDescription == "No description provided"
DefaultCommitMessage == "No commit message provided"

\* x or y, of two strings: the empty string gives way
Or(x, y) == IF x = "" THEN y ELSE x

\* commit_id=None, and the empty string, take the "no identifier" branch
NoId == ""

(***************************************************************************)
(* Paths (os.path).                                                        *)
(***************************************************************************)
IsCurDir(c) == c = "."

\* os.path.normpath / the file system's own resolution: "." components drop
Norm(p) == SelectSeq(p, LAMBDA c : ~IsCurDir(c))

\* os.path.basename
Basename(p) == p[Len(p)]

\* os.path.join
Join(a, b) == a \o b

IsPrefix(d, q) == Len(d) <= Len(q) /\ SubSeq(q, 1, Len(d)) = d

Suffix(d, q) == SubSeq(q, Len(d) + 1, Len(q))

Parent(p) == SubSeq(p, 1, Len(p) - 1)

(***************************************************************************)
(* Trees.                                                                  *)
(***************************************************************************)
FileNode(c) == [kind |-> "f", data |-> c]
DirNode == [kind |-> "d", data |-> 0]

EmptyTree == [q \in {} |-> DirNode]

Put(t, p, node) == [q \in DOMAIN t \cup {p} |-> IF q = p THEN node ELSE t[q]]

Without(t, S) == [q \in DOMAIN t \ S |-> t[q]]

\* os.path.exists / isfile / isdir of a path as the user wrote it
Exists(t, p) == Norm(p) \in DOMAIN t
IsFile(t, p) == Exists(t, p) /\ t[Norm(p)].kind = "f"
IsDir(t, p) == Exists(t, p) /\ t[Norm(p)].kind = "d"

\* the directory d and everything below it
Under(t, d) == {q \in DOMAIN t : IsPrefix(Norm(d), q)}

\* the files of a tree (os.walk), as normalised paths
FilesOf(t) == {q \in DOMAIN t : t[q].kind = "f"}

(***************************************************************************)
(* Storages: a directory under .icvcs/versions or .icvcs/commits, holding  *)
(* the copied tree and, once written, metadata.json (meta is <<>> or a     *)
(* one-element sequence).                                                  *)
(***************************************************************************)
EmptyStorage == [tree |-> EmptyTree, meta |-> <<>>]

MapPut(m, k, v) == [x \in DOMAIN m \cup {k} |-> IF x = k THEN v ELSE m[x]]
MapDel(m, K) == [x \in DOMAIN m \ K |-> m[x]]
EmptyMap == [x \in {} |-> EmptyStorage]

\* list.remove(x): the first occurrence goes
RECURSIVE ListRemove(_, _)
ListRemove(s, x) ==
    IF s = <<>> THEN <<>>
    ELSE IF Head(s) = x THEN Tail(s)
    ELSE <<Head(s)>> \o ListRemove(Tail(s), x)

InList(s, x) == \E i \in 1..Len(s) : s[i] = x

Count(s, x) == Cardinality({i \in 1..Len(s) : s[i] = x})

\* the orders in which a directory listing can give the names of S: the
\* order is the file system's
Orders(S) ==
    {o \in [1..Cardinality(S) -> S] : \A i, j \in 1..Cardinality(S) : o[i] = o[j] => i = j}

(***************************************************************************)
(* Snapshot Store: the copy loops of commit() and version('create').       *)
(* The result is the destination tree and whether the loops ran to their   *)
(* end (ok) or an exception stopped them.                                  *)
(***************************************************************************)
\* for file in repo_data["files"]: if os.path.exists(file): shutil.copy(file, dest)
RECURSIVE CopyFiles(_, _, _)
CopyFiles(fs, w, t) ==
    IF fs = <<>> THEN [tree |-> t, ok |-> TRUE]
    ELSE LET f == Head(fs)
             target == <<Basename(f)>>
         IN IF ~Exists(w, f) THEN CopyFiles(Tail(fs), w, t)
            \* open() of a directory: IsADirectoryError
            ELSE IF IsDir(w, f) \/ IsDir(t, target) THEN [tree |-> t, ok |-> FALSE]
            ELSE CopyFiles(Tail(fs), w, Put(t, target, w[Norm(f)]))

\* shutil.copytree(directory, os.path.join(dest, os.path.basename(directory)))
CopyTreeInto(t, w, d) ==
    [q \in DOMAIN t \cup {Join(<<Basename(d)>>, Suffix(Norm(d), s)) : s \in Under(w, d)} |->
        IF q \in DOMAIN t THEN t[q]
        ELSE w[Join(Norm(d), Suffix(<<Basename(d)>>, q))]]

\* for directory in repo_data["directories"]: if os.path.exists(directory): copytree
RECURSIVE CopyDirs(_, _, _)
CopyDirs(ds, w, t) ==
    IF ds = <<>> THEN [tree |-> t, ok |-> TRUE]
    ELSE LET d == Head(ds).path
         IN IF ~Exists(w, d) THEN CopyDirs(Tail(ds), w, t)
            \* os.scandir of a file: NotADirectoryError; os.makedirs of an
            \* existing destination: FileExistsError
            ELSE IF IsFile(w, d) \/ <<Basename(d)>> \in DOMAIN t
                 THEN [tree |-> t, ok |-> FALSE]
            ELSE CopyDirs(Tail(ds), w, CopyTreeInto(t, w, d))

Materialize(fs, ds, w) ==
    LET r == CopyFiles(fs, w, EmptyTree)
    IN IF r.ok THEN CopyDirs(ds, w, r.tree) ELSE r

(***************************************************************************)
(* The report of the last command.                                         *)
(***************************************************************************)
Report(c, a, m) == [cmd |-> c, arg |-> a, msg |-> m]

(***************************************************************************)
(* init                                                                    *)
(***************************************************************************)
\* no process waits at the prompt of commit or of version create
NoPrompt == [cmd |-> "none"]

\* init() up to its first prompt: the directories and repo_data.json are
\* written, icvcs_config.json and commit_history.json are not
InitRepo(w) ==
    /\ wt = w
    /\ files = <<>>
    /\ directories = <<>>
    /\ versions = <<>>
    /\ vstore = EmptyMap
    /\ commits = MapPut(EmptyMap, LATEST, EmptyStorage)
    /\ journal = <<>>
    /\ clock = 1
    /\ out = Report("init", <<>>, "prompt")
    /\ initp = "asked"
    /\ commitp = NoPrompt
    /\ versionp = NoPrompt
    /\ config = <<>>

\* load_config(): icvcs_config.json, or the built-in defaults when the file
\* is not there
BuiltInConfig ==
    [default_author |-> DefaultAuthor,
     default_version_description |-> DefaultDescription,
     default_commit_message |-> DefaultCommitMessage]

LoadConfig == IF config # <<>> THEN config[1] ELSE BuiltInConfig

\* the configuration init builds from its three answers: an empty author and
\* an empty description give way to the defaults, the commit message is taken
\* as it was typed
InitConfig(a, d, m) ==
    [default_author |-> Or(a, DefaultAuthor),
     default_version_description |-> Or(d, DefaultDescription),
     default_commit_message |-> m]

\* commit_history.json exists once init has run to its end
JournalExists == initp = "done"

\* the three prompts of init are answered with a, d and m: the configuration
\* and an empty journal are written
InitAnswer(a, d, m) ==
    /\ initp = "asked"
    /\ initp' = "done"
    /\ config' = <<InitConfig(a, d, m)>>
    /\ journal' = <<>>
    /\ out' = Report("init", <<>>, "initialized")
    /\ UNCHANGED <<wt, files, directories, versions, vstore, commits, clock,
                   commitp, versionp>>

\* the input is closed at a prompt of init: EOFError, nothing more is written
InitEOF ==
    /\ initp = "asked"
    /\ initp' = "aborted"
    /\ out' = Report("init", <<>>, "input_crash")
    /\ UNCHANGED <<wt, files, directories, versions, vstore, commits, journal,
                   clock, commitp, versionp, config>>

\* init in a directory that holds .icvcs
InitAgain ==
    /\ out' = Report("init", <<>>, "already_initialized")
    /\ UNCHANGED <<wt, files, directories, versions, vstore, commits, journal,
                   clock, prompts, config>>

(***************************************************************************)
(* The working tree is edited by the user between commands.                *)
(***************************************************************************)
WriteFile(p, c) ==
    /\ ~IsDir(wt, p)
    /\ Len(p) > 1 => IsDir(wt, Parent(p))
    /\ IsFile(wt, p) => wt[p].data # c
    /\ wt' = Put(wt, p, FileNode(c))
    /\ out' = Report("edit", <<>>, "")
    /\ UNCHANGED <<files, directories, versions, vstore, commits, journal, clock, prompts, config>>

DeleteFile(p) ==
    /\ IsFile(wt, p)
    /\ wt' = Without(wt, {p})
    /\ out' = Report("edit", <<>>, "")
    /\ UNCHANGED <<files, directories, versions, vstore, commits, journal, clock, prompts, config>>

MakeDir(p) ==
    /\ ~Exists(wt, p)
    /\ Len(p) > 1 => IsDir(wt, Parent(p))
    /\ wt' = Put(wt, p, DirNode)
    /\ out' = Report("edit", <<>>, "")
    /\ UNCHANGED <<files, directories, versions, vstore, commits, journal, clock, prompts, config>>

RemoveDir(p) ==
    /\ IsDir(wt, p)
    /\ wt' = Without(wt, Under(wt, p))
    /\ out' = Report("edit", <<>>, "")
    /\ UNCHANGED <<files, directories, versions, vstore, commits, journal, clock, prompts, config>>

\* a second passes
Tick ==
    /\ clock < MaxClock
    /\ clock' = clock + 1
    /\ UNCHANGED <<wt, files, directories, versions, vstore, commits, journal, out, prompts, config>>

(***************************************************************************)
(* add <path> [-wf]                                                        *)
(***************************************************************************)
DirKeys(ds) == {ds[i].path : i \in 1..Len(ds)}

DirIndex(ds, p) == CHOOSE i \in 1..Len(ds) : ds[i].path = p

\* the files and the directories that the directory d holds itself
FilesIn(w, d) == {q \in DOMAIN w : w[q].kind = "f" /\ Parent(q) = d}
DirsIn(w, d) == {q \in DOMAIN w : w[q].kind = "d" /\ Len(q) > 0 /\ Parent(q) = d}

\* the orders in which os.walk lists the files below the directory d (a
\* normalised path): the files of d in the order of its listing, then the
\* walks of its subdirectories one after the other, in the order of the listing
RECURSIVE WalkOrders(_, _), WalkAll(_, _)
WalkOrders(w, d) ==
    {here \o below : here \in Orders(FilesIn(w, d)),
                     below \in UNION {WalkAll(w, o) : o \in Orders(DirsIn(w, d))}}

WalkAll(w, o) ==
    IF o = <<>> THEN {<<>>}
    ELSE {first \o rest : first \in WalkOrders(w, Head(o)), rest \in WalkAll(w, Tail(o))}

\* the walks of add -wf over the path p as it was written
AddWalks(w, p, wf) ==
    IF wf /\ IsDir(w, p)
    THEN {[i \in 1..Len(o) |-> Join(p, Suffix(Norm(p), o[i]))] : o \in WalkOrders(w, Norm(p))}
    ELSE {<<>>}

\* the capture list grown by the files not already in it, in the order of
\* the walk
Captured(old, walk) ==
    old \o SelectSeq(walk, LAMBDA f : ~InList(old, f))

AddDirectory(ds, p, wf, walk) ==
    LET known == IF p \in DirKeys(ds) THEN ds
                 ELSE Append(ds, [path |-> p, files |-> <<>>])
        i == DirIndex(known, p)
    IN IF wf
       THEN [known EXCEPT ![i].files = Captured(known[i].files, walk)]
       ELSE known

\* a faulty variant: the membership test is missing
AddFileAlways(fs, p) == Append(fs, p)

AddFile(fs, p) == IF InList(fs, p) THEN fs ELSE Append(fs, p)

AddReport(p, wf) ==
    IF IsFile(wt, p)
    THEN IF InList(files, p) THEN "already_tracked" ELSE "added"
    ELSE IF IsDir(wt, p)
    THEN IF p \notin DirKeys(directories) THEN "dir_added"
         ELSE IF wf THEN "dir_contents_added" ELSE "updated"
    ELSE "path_not_found"

Add(p, wf) ==
    \E walk \in AddWalks(wt, p, wf) :
        /\ files' = IF IsFile(wt, p) THEN AddFile(files, p) ELSE files
        /\ directories' = IF ~IsFile(wt, p) /\ IsDir(wt, p)
                          THEN AddDirectory(directories, p, wf, walk)
                          ELSE directories
        /\ out' = Report("add", p, AddReport(p, wf))
        /\ UNCHANGED <<wt, versions, vstore, commits, journal, clock, prompts, config>>

(***************************************************************************)
(* remove <path>                                                           *)
(***************************************************************************)
RemoveDirectory(ds, p) == SelectSeq(ds, LAMBDA e : e.path # p)

RemoveReport(p) ==
    IF IsFile(wt, p)
    THEN IF InList(files, p) THEN "removed" ELSE "not_tracked"
    ELSE IF IsDir(wt, p)
    THEN IF p \in DirKeys(directories) THEN "dir_removed" ELSE "not_tracked"
    ELSE "path_not_found"

Remove(p) ==
    /\ files' = IF IsFile(wt, p) /\ InList(files, p)
                THEN ListRemove(files, p) ELSE files
    /\ directories' = IF ~IsFile(wt, p) /\ IsDir(wt, p)
                      THEN RemoveDirectory(directories, p) ELSE directories
    /\ out' = Report("remove", p, RemoveReport(p))
    /\ UNCHANGED <<wt, versions, vstore, commits, journal, clock, prompts, config>>

(***************************************************************************)
(* version create <name> [--force], version delete <name>                  *)
(***************************************************************************)
\* the repo_data document and the configuration as version('create') holds
\* them in memory while it waits at its prompts: read on entry, the name
\* taken off the version list under --force
VersionPrompt(n) ==
    [cmd |-> "version", name |-> n, created_at |-> clock,
     files |-> files, directories |-> directories, config |-> LoadConfig,
     versions |-> IF n \in DOMAIN vstore THEN ListRemove(versions, n) ELSE versions,
     overwrite |-> n \in DOMAIN vstore]

\* metadata.json of the version, the prompts answered with a and d: the time
\* was read before the prompts, the files are those of the document read on
\* entry, an empty answer gives way to the configuration read on entry
VersionMetadata(p, a, d) ==
    [version_name |-> p.name, created_at |-> p.created_at,
     author |-> Or(a, p.config.default_author),
     description |-> Or(d, p.config.default_version_description),
     files |-> p.files]

\* how version('create', n, force) gets to its prompts.  unlisted_crash:
\* --force on a storage the version list does not name, where list.remove
\* raises ValueError after the rmtree; copy_crash: a copy loop raises
VersionCreateOutcome(n, force) ==
    IF n \in DOMAIN vstore /\ ~force THEN "already_exists"
    ELSE IF n \in DOMAIN vstore /\ ~InList(versions, n) THEN "unlisted_crash"
    ELSE IF ~Materialize(files, directories, wt).ok THEN "copy_crash"
    ELSE "prompt"

\* a faulty variant: the old storage is removed before --force is looked at
VersionStoreAfterEager(n, o) ==
    LET r == Materialize(files, directories, wt)
    IN CASE o = "already_exists" -> MapDel(vstore, {n})
         [] o = "unlisted_crash" -> MapDel(vstore, {n})
         [] OTHER -> MapPut(vstore, n, [tree |-> r.tree, meta |-> <<>>])

\* the storage versions/<n> at the prompt or at the crash: the old one is
\* removed before anything is copied; metadata.json is not written yet
VersionStoreAfter(n, o) ==
    LET r == Materialize(files, directories, wt)
    IN CASE o = "already_exists" -> vstore
         [] o = "unlisted_crash" -> MapDel(vstore, {n})
         [] OTHER -> MapPut(vstore, n, [tree |-> r.tree, meta |-> <<>>])

\* version create <n> [--force] up to "Enter version author: "
VersionCreate(n, force) ==
    LET o == VersionCreateOutcome(n, force)
    IN /\ versionp = NoPrompt \/ o # "prompt"
       /\ vstore' = VersionStoreAfter(n, o)
       /\ versionp' = IF o = "prompt" THEN VersionPrompt(n) ELSE versionp
       /\ out' = [cmd |-> "version_create", arg |-> n, msg |-> o,
                   overwrite |-> (n \in DOMAIN vstore /\ force)]
       /\ UNCHANGED <<wt, files, directories, versions, commits, journal, clock,
                      initp, commitp, config>>

\* how the command ends once its prompts are answered.  meta_crash: the
\* storage is gone, open(version_metadata_path, 'w') raises FileNotFoundError
VersionAnswerOutcome ==
    IF versionp.name \notin DOMAIN vstore THEN "meta_crash"
    ELSE IF versionp.overwrite THEN "overwritten"
    ELSE "created"

\* the prompts of version create are answered with a and d: metadata.json is
\* written and the document read on entry is saved with the name appended
VersionAnswer(a, d) ==
    /\ versionp # NoPrompt
    /\ LET n == versionp.name
           o == VersionAnswerOutcome
       IN /\ vstore' = IF o = "meta_crash" THEN vstore
                       ELSE MapPut(vstore, n, [tree |-> vstore[n].tree,
                                               meta |-> <<VersionMetadata(versionp, a, d)>>])
          /\ files' = IF o = "meta_crash" THEN files ELSE versionp.files
          /\ directories' = IF o = "meta_crash" THEN directories
                            ELSE versionp.directories
          /\ versions' = IF o = "meta_crash" THEN versions
                         ELSE Append(versionp.versions, n)
          /\ out' = [cmd |-> "version_create", arg |-> n, msg |-> o,
                      overwrite |-> versionp.overwrite]
    /\ versionp' = NoPrompt
    /\ UNCHANGED <<wt, commits, journal, clock, initp, commitp, config>>

\* the input is closed at a prompt of version create: EOFError, nothing more
\* is written
VersionEOF ==
    /\ versionp # NoPrompt
    /\ versionp' = NoPrompt
    /\ out' = [cmd |-> "version_create", arg |-> versionp.name, msg |-> "input_crash",
                overwrite |-> versionp.overwrite]
    /\ UNCHANGED <<wt, files, directories, versions, vstore, commits, journal, clock,
                   initp, commitp, config>>

VersionDeleteOutcome(n) ==
    IF n \notin DOMAIN vstore THEN "not_found"
    ELSE IF ~InList(versions, n) THEN "unlisted_crash"
    ELSE "deleted"

VersionDelete(n) ==
    LET o == VersionDeleteOutcome(n)
    IN /\ vstore' = IF o = "not_found" THEN vstore ELSE MapDel(vstore, {n})
       /\ versions' = IF o = "deleted" THEN ListRemove(versions, n) ELSE versions
       /\ out' = Report("version_delete", n, o)
       /\ UNCHANGED <<wt, files, directories, commits, journal, clock, prompts, config>>

(***************************************************************************)
(* commit, commit remove <id>, commit clear                                *)
(***************************************************************************)
\* the metadata of the commit that waits as p, its prompts answered with m
\* and a: the clock was read a second time, after the copy loops, for the
\* timestamp; an empty answer gives way to the configuration read on entry
CommitMetadata(p, m, a) ==
    [commit_id |-> p.id, timestamp |-> p.timestamp,
     message |-> Or(m, p.config.default_commit_message),
     author |-> Or(a, p.config.default_author)]

\* a faulty variant, os.makedirs(commit_dir, exist_ok=True): a commit in the
\* second of an existing one is written over it
CommitOutcomeOverwriting(id) ==
    IF ~Materialize(files, directories, wt).ok THEN "copy_crash"
    ELSE "prompt"

\* how commit() gets to its prompts.  exists_crash: os.makedirs(commit_dir)
\* raises FileExistsError; copy_crash: a copy loop raises
CommitOutcome(id) ==
    IF id \in DOMAIN commits THEN "exists_crash"
    ELSE IF ~Materialize(files, directories, wt).ok THEN "copy_crash"
    ELSE "prompt"

\* COMMITS_DIR at the prompt or at the crash: nothing new, or the copies
\* made; metadata.json is not written yet
CommitStoreAfter(id, o) ==
    LET r == Materialize(files, directories, wt)
    IN CASE o = "exists_crash" -> commits
         [] OTHER -> MapPut(commits, id, [tree |-> r.tree, meta |-> <<>>])

\* commit up to "Enter commit message: ": the identifier is the second of
\* the first reading of the clock, the timestamp a later reading
Commit ==
    LET id == CommitId(clock)
        o == CommitOutcome(id)
    IN /\ Len(journal) < MaxJournal
       /\ commitp = NoPrompt \/ o # "prompt"
       /\ commits' = CommitStoreAfter(id, o)
       /\ \E t \in clock..MaxClock :
             /\ o # "prompt" => t = clock
             /\ clock' = t
             /\ commitp' = IF o = "prompt"
                           THEN [cmd |-> "commit", id |-> id, timestamp |-> t,
                                 config |-> LoadConfig]
                           ELSE commitp
       /\ out' = Report("commit", id, o)
       /\ UNCHANGED <<wt, files, directories, versions, vstore, journal, initp, versionp,
                      config>>

\* how the command ends once its prompts are answered.  meta_crash: the
\* storage is gone, open(metadata_path, 'w') raises FileNotFoundError;
\* journal_crash: commit_history.json is not there, open(.., 'r') raises
CommitAnswerOutcome ==
    IF commitp.id \notin DOMAIN commits THEN "meta_crash"
    ELSE IF ~JournalExists THEN "journal_crash"
    ELSE "created"

\* a faulty variant: metadata.json holds the built-in default message, not
\* the one that was entered
CommitStoreAnsweredDefaultMessage(md, o) ==
    IF o = "meta_crash" THEN commits
    ELSE MapPut(commits, md.commit_id,
                [tree |-> commits[md.commit_id].tree,
                 meta |-> <<[md EXCEPT !.message = DefaultCommitMessage]>>])

\* COMMITS_DIR after the prompts: metadata.json is written into the storage
CommitStoreAnswered(md, o) ==
    IF o = "meta_crash" THEN commits
    ELSE MapPut(commits, md.commit_id,
                [tree |-> commits[md.commit_id].tree, meta |-> <<md>>])

\* the prompts of commit are answered with the message m and the author a:
\* metadata.json is written, then the record is appended to the journal
CommitAnswer(m, a) ==
    /\ commitp # NoPrompt
    /\ LET md == CommitMetadata(commitp, m, a)
           o == CommitAnswerOutcome
       IN /\ commits' = CommitStoreAnswered(md, o)
          /\ journal' = IF o = "created" THEN Append(journal, md) ELSE journal
          /\ out' = Report("commit", commitp.id, o)
    /\ commitp' = NoPrompt
    /\ UNCHANGED <<wt, files, directories, versions, vstore, clock, initp, versionp,
                   config>>

\* the input is closed at a prompt of commit: EOFError, nothing more is
\* written
CommitEOF ==
    /\ commitp # NoPrompt
    /\ commitp' = NoPrompt
    /\ out' = Report("commit", commitp.id, "input_crash")
    /\ UNCHANGED <<wt, files, directories, versions, vstore, commits, journal, clock,
                   initp, versionp, config>>

\* a faulty variant: the journal record goes with the storage
RemoveCommitWithRecord(id) ==
    /\ commits' = IF id \in DOMAIN commits THEN MapDel(commits, {id}) ELSE commits
    /\ journal' = SelectSeq(journal, LAMBDA r : r.commit_id # id)
    /\ out' = Report("commit_remove", id,
                     IF id \in DOMAIN commits THEN "removed" ELSE "not_found")
    /\ UNCHANGED <<wt, files, directories, versions, vstore, clock, prompts, config>>

\* a faulty variant: the storages of the older commits go as well
RemoveCommitAndOlder(id) ==
    /\ commits' = IF id \in DOMAIN commits
                  THEN MapDel(commits, {c \in DOMAIN commits \ {LATEST} :
                                           Rank(c) <= Rank(id)})
                  ELSE commits
    /\ out' = Report("commit_remove", id,
                     IF id \in DOMAIN commits THEN "removed" ELSE "not_found")
    /\ UNCHANGED <<wt, files, directories, versions, vstore, journal, clock, prompts, config>>

RemoveCommit(id) ==
    /\ commits' = IF id \in DOMAIN commits THEN MapDel(commits, {id}) ELSE commits
    /\ out' = Report("commit_remove", id,
                     IF id \in DOMAIN commits THEN "removed" ELSE "not_found")
    /\ UNCHANGED <<wt, files, directories, versions, vstore, journal, clock, prompts, config>>

\* a faulty variant: the whole of COMMITS_DIR is emptied, latest included
ClearCommitsAll ==
    /\ commits' = MapDel(commits, DOMAIN commits)
    /\ out' = Report("commit_clear", <<>>, "cleared")
    /\ UNCHANGED <<wt, files, directories, versions, vstore, journal, clock, prompts, config>>

ClearCommits ==
    /\ commits' = MapDel(commits, DOMAIN commits \ {LATEST})
    /\ out' = Report("commit_clear", <<>>, "cleared")
    /\ UNCHANGED <<wt, files, directories, versions, vstore, journal, clock, prompts, config>>

(***************************************************************************)
(* push [<id>]                                                             *)
(***************************************************************************)
\* sorted(os.listdir(COMMITS_DIR)) without 'latest'
PushCandidates == DOMAIN commits \ {LATEST}

\* a faulty variant, commits[0]: the oldest storage is taken
Oldest(S) == CHOOSE x \in S : \A y \in S : Rank(x) <= Rank(y)

\* commits[-1]
Greatest(S) == CHOOSE x \in S : \A y \in S : Rank(y) <= Rank(x)

PushOutcome(cid) ==
    IF DOMAIN commits = {} THEN "nothing_to_push"
    ELSE IF cid # NoId
    THEN IF cid \notin DOMAIN commits THEN "not_found" ELSE "pushed"
    ELSE IF PushCandidates = {} THEN "nothing_to_push" ELSE "pushed"

PushTarget(cid) == IF cid # NoId THEN cid ELSE Greatest(PushCandidates)

\* a faulty variant: no rmtree: the items are copied over what latest holds
LatestAfterPushMerged(id) ==
    LET old == IF LATEST \in DOMAIN commits THEN commits[LATEST].tree ELSE EmptyTree
        new == commits[id].tree
    IN [tree |-> [q \in DOMAIN old \cup DOMAIN new |->
                     IF q \in DOMAIN new THEN new[q] ELSE old[q]],
        meta |-> commits[id].meta]

\* a faulty variant: metadata.json is not among the items copied
LatestAfterPushFilesOnly(id) ==
    [tree |-> MapPut(commits, LATEST, EmptyStorage)[id].tree, meta |-> <<>>]

\* rmtree(LATEST_DIR), makedirs(LATEST_DIR), then every item of commit_dir as
\* it is listed after that: metadata.json is one of the items
LatestAfterPush(id) ==
    LET emptied == MapPut(commits, LATEST, EmptyStorage)
    IN emptied[id]

Push(cid) ==
    LET o == PushOutcome(cid)
    IN /\ commits' = IF o = "pushed"
                     THEN MapPut(commits, LATEST, LatestAfterPush(PushTarget(cid)))
                     ELSE commits
       /\ out' = IF o = "pushed"
                 THEN [cmd |-> "push", arg |-> PushTarget(cid), msg |-> o,
                       prev |-> IF out.cmd = "push" /\ out.msg = "pushed"
                                THEN out.arg ELSE NoId]
                 ELSE Report("push", cid, o)
       /\ UNCHANGED <<wt, files, directories, versions, vstore, journal, clock, prompts, config>>

(***************************************************************************)
(* status                                                                  *)
(***************************************************************************)
\* os.walk('.') with os.path.relpath, the repository's own directory skipped
WorkingDirectoryFiles == FilesOf(wt)

TrackedFiles == {files[i] : i \in 1..Len(files)}

\* the tree under .icvcs/commits/latest (nothing exists below a missing directory)
LatestTree == IF LATEST \in DOMAIN commits THEN commits[LATEST].tree ELSE EmptyTree

\* open(file, 'rb') or open(file_path, 'rb') of a directory: IsADirectoryError
StatusCrashes ==
    \E f \in TrackedFiles :
        /\ Exists(wt, f)
        /\ Exists(LatestTree, f)
        /\ (IsDir(wt, f) \/ IsDir(LatestTree, f))

DeletedFiles == {f \in TrackedFiles : ~Exists(wt, f)}

\* a faulty variant: a file missing from latest is not taken as modified
ModifiedFilesComparedOnly ==
    {f \in TrackedFiles :
        /\ Exists(wt, f)
        /\ Exists(LatestTree, f)
        /\ wt[Norm(f)] # LatestTree[Norm(f)]}

ModifiedFiles ==
    {f \in TrackedFiles :
        /\ Exists(wt, f)
        /\ \/ ~Exists(LatestTree, f)
           \/ wt[Norm(f)] # LatestTree[Norm(f)]}

UntrackedFiles == WorkingDirectoryFiles \ TrackedFiles

StagedFiles == ((TrackedFiles \cap WorkingDirectoryFiles) \ ModifiedFiles) \ DeletedFiles

Status ==
    /\ out' = IF StatusCrashes
              THEN Report("status", <<>>, "crash")
              ELSE [cmd |-> "status", arg |-> <<>>, msg |-> "ok",
                    untracked |-> UntrackedFiles, modified |-> ModifiedFiles,
                    deleted |-> DeletedFiles, staged |-> StagedFiles]
    /\ UNCHANGED <<wt, files, directories, versions, vstore, commits, journal, clock, prompts, config>>

(***************************************************************************)
(* The runs.  Every run starts right after init, in a working tree that    *)
(* holds a.txt, the directory sub and sub/a.txt.                           *)
(***************************************************************************)
A == <<"a.txt">>
DotA == <<".", "a.txt">>
Sub == <<"sub">>
DotSub == <<".", "sub">>
SubA == <<"sub", "a.txt">>

StartTree == Put(Put(Put(EmptyTree, A, FileNode(1)), Sub, DirNode), SubA, FileNode(1))

Init == InitRepo(StartTree)

CommitIds == {CommitId(n) : n \in 1..MaxClock}
CommitNames == CommitIds \cup {LATEST}
V1 == "v1"
VersionNames == {V1, "v2"}

(***************************************************************************)
(* compare <version1> <version2>                                           *)
(***************************************************************************)
\* sorted(all_files): the path strings in string order ('.' < 'a' < 's')
SortedPaths == <<DotA, DotSub, A, Sub, SubA>>

PathRank(p) == CHOOSE i \in 1..Len(SortedPaths) : SortedPaths[i] = p

\* load_version_files(v) is None when versions/<v>/metadata.json is missing
VersionFilesKnown(v) == v \in DOMAIN vstore /\ vstore[v].meta # <<>>

\* load_version_files(v): the "files" list of the metadata
LoadVersionFiles(v) == vstore[v].meta[1].files

\* open(".icvcs/versions/<v>/<file_path>") or f.read() raises something other
\* than FileNotFoundError: the path is a directory, or runs through a file,
\* or the bytes of the file cannot be decoded (UnicodeDecodeError)
ContentCrashes(v, f) ==
    LET t == vstore[v].tree
        q == Norm(f)
    IN \/ IsDir(t, q)
       \/ \E k \in 1..(Len(q) - 1) : IsFile(t, SubSeq(q, 1, k))
       \/ IsFile(t, q) /\ t[q].data = NotText

\* load_file_content(v, f) or "": the text read from the file stored under
\* the tracked path, the empty text 0 when no file is there
LoadFileContent(v, f) ==
    IF IsFile(vstore[v].tree, f) THEN ReadText(vstore[v].tree[Norm(f)].data) ELSE 0

\* set(files1).union(files2)
AllFiles(a, b) ==
    {LoadVersionFiles(a)[i] : i \in 1..Len(LoadVersionFiles(a))}
        \cup {LoadVersionFiles(b)[i] : i \in 1..Len(LoadVersionFiles(b))}

\* a faulty variant: a file with no content on the first side is passed over
FileChangedFromFirst(c1, c2) == c1 # 0 /\ c1 # c2

\* content1 != content2
FileChanged(c1, c2) == c1 # c2

\* the files at which the loop stops with an exception
CompareCrashers(a, b) ==
    {f \in AllFiles(a, b) : ContentCrashes(a, f) \/ ContentCrashes(b, f)}

\* the files the loop gets to report, in sorted order up to the first crash
CompareReached(a, b) ==
    {f \in AllFiles(a, b) :
        \A g \in CompareCrashers(a, b) : PathRank(f) < PathRank(g)}

\* "Changes in file: f"
ChangedFiles(a, b) ==
    {f \in CompareReached(a, b) :
        FileChanged(LoadFileContent(a, f), LoadFileContent(b, f))}

\* "No changes in file: f"
UnchangedFiles(a, b) == CompareReached(a, b) \ ChangedFiles(a, b)

CompareOutcome(a, b) ==
    IF ~VersionFilesKnown(a) \/ ~VersionFilesKnown(b) THEN "not_found"
    ELSE IF CompareCrashers(a, b) # {} THEN "crash"
    ELSE "ok"

Compare(a, b) ==
    LET o == CompareOutcome(a, b)
    IN /\ out' = [cmd |-> "compare", arg |-> <<a, b>>, msg |-> o,
                   changed |-> IF o = "not_found" THEN {} ELSE ChangedFiles(a, b),
                   unchanged |-> IF o = "not_found" THEN {} ELSE UnchangedFiles(a, b)]
       /\ UNCHANGED <<wt, files, directories, versions, vstore, commits, journal, clock, prompts, config>>

\* no command waits at a prompt
Quiet == initp # "asked" /\ commitp = NoPrompt /\ versionp = NoPrompt

\* The runs of Spec, SpecIndex, SpecCommit, SpecStatus, SpecVersion and
\* SpecCompare take one command at a time: a command starts when no other
\* waits at a prompt.  The runs of SpecCommitPrompt and SpecVersionPrompt
\* have the commands of other processes run while init, commit and version
\* create wait at their prompts.

\* every command of the tool, over one file that is added, removed, rewritten
\* with new bytes and deleted, and one version name; the clock advances while
\* a commit copies
Next ==
    \/ InitAnswer("", "", "")
    \/ Quiet /\ Add(A, FALSE)
    \/ Quiet /\ Remove(A)
    \/ Quiet /\ WriteFile(A, 2)
    \/ Quiet /\ DeleteFile(A)
    \/ Quiet /\ \E force \in BOOLEAN : VersionCreate(V1, force)
    \/ VersionAnswer("", "")
    \/ Quiet /\ VersionDelete(V1)
    \/ Quiet /\ Commit
    \/ CommitAnswer("m", "")
    \/ Quiet /\ \E id \in CommitIds \cup {NoId} : Push(id)
    \/ Quiet /\ \E id \in CommitIds : RemoveCommit(id)
    \/ Quiet /\ ClearCommits

Spec == Init /\ [][Next]_vars

\* the index: every spelling of the paths, and a.txt replaced by a directory
\* of the same name and back
NextIndex ==
    \/ InitAnswer("", "", "")
    \/ Quiet /\ \E p \in {A, DotA, Sub, DotSub, SubA} : \E wf \in BOOLEAN : Add(p, wf)
    \/ Quiet /\ \E p \in {A, DotA, Sub, DotSub, SubA} : Remove(p)
    \/ Quiet /\ WriteFile(A, 1)
    \/ Quiet /\ \E p \in {A, SubA} : DeleteFile(p)
    \/ Quiet /\ MakeDir(A)
    \/ Quiet /\ RemoveDir(A)

SpecIndex == Init /\ [][NextIndex]_vars

\* the commit layer: commit, push, commit remove and commit clear (the
\* reserved name among the identifiers), over a file that is rewritten
\* between commits and a directory tracked under two spellings
NextCommit ==
    \/ InitAnswer("", "", "")
    \/ Quiet /\ \E p \in {A, Sub, DotSub} : Add(p, FALSE)
    \/ Quiet /\ WriteFile(A, 2)
    \/ Quiet /\ Commit
    \/ CommitAnswer("m", "")
    \/ Quiet /\ \E id \in CommitNames \cup {NoId} : Push(id)
    \/ Quiet /\ \E id \in CommitNames : RemoveCommit(id)
    \/ Quiet /\ ClearCommits
    \/ Quiet /\ Tick

SpecCommit == Init /\ [][NextCommit]_vars

\* status after add, commit, push and edits, over the three spellings of
\* tracked files
NextStatus ==
    \/ InitAnswer("", "", "")
    \/ Quiet /\ \E p \in {A, DotA, SubA} : Add(p, FALSE)
    \/ Quiet /\ \E p \in {A, SubA} : \E c \in Contents : WriteFile(p, c)
    \/ Quiet /\ \E p \in {A, SubA} : DeleteFile(p)
    \/ Quiet /\ Commit
    \/ CommitAnswer("m", "")
    \/ Quiet /\ Push(NoId)
    \/ Quiet /\ Status

SpecStatus == Init /\ [][NextStatus]_vars

\* the version layer, over a file that is edited and deleted and a directory
\* tracked under two spellings
NextVersion ==
    \/ InitAnswer("", "", "")
    \/ Quiet /\ \E p \in {A, Sub, DotSub} : Add(p, FALSE)
    \/ Quiet /\ Remove(A)
    \/ Quiet /\ \E c \in Contents : WriteFile(A, c)
    \/ Quiet /\ DeleteFile(A)
    \/ Quiet /\ \E n \in VersionNames : \E force \in BOOLEAN : VersionCreate(n, force)
    \/ VersionAnswer("", "")
    \/ Quiet /\ \E n \in VersionNames : VersionDelete(n)
    \/ Quiet /\ Tick

SpecVersion == Init /\ [][NextVersion]_vars

\* compare over two versions of a file that is rewritten with another text,
\* with its own text under other line ends and with bytes that are no text,
\* of a file tracked under a path with a directory component, and of the
\* directory that holds it
NextCompare ==
    \/ InitAnswer("", "", "")
    \/ Quiet /\ \E p \in {A, SubA, Sub} : Add(p, FALSE)
    \/ Quiet /\ \E c \in {MaxContent, CrLf(1), NotText} : WriteFile(A, c)
    \/ Quiet /\ WriteFile(SubA, 2)
    \/ Quiet /\ DeleteFile(A)
    \/ Quiet /\ \E n \in VersionNames : \E force \in BOOLEAN : VersionCreate(n, force)
    \/ VersionAnswer("", "")
    \/ Quiet /\ \E a, b \in VersionNames : Compare(a, b)

SpecCompare == Init /\ [][NextCompare]_vars

\* what is typed at "Enter a default commit message: " and at "Enter commit
\* message: ": the empty line, or a text
InitMessages == {"", "d"}
CommitMessages == {"", "m"}

\* init and commit at their prompts: the commands of other processes run
\* while they wait (add, push, and commit remove of the first second's
\* commit), and the input is closed on them; the messages are typed or left
\* empty
NextCommitPrompt ==
    \/ \E m \in InitMessages : InitAnswer("", "", m)
    \/ InitEOF
    \/ Add(A, FALSE)
    \/ Commit
    \/ \E m \in CommitMessages : CommitAnswer(m, "")
    \/ CommitEOF
    \/ \E id \in CommitIds \cup {NoId} : Push(id)
    \/ RemoveCommit(CommitId(1))
    \/ Tick

SpecCommitPrompt == Init /\ [][NextCommitPrompt]_vars

\* what is typed at the prompts of init and of version create: empty lines,
\* or an author and a description
InitAnswers == {<<"", "", "">>, <<"ann", "first", "">>}
VersionAnswers == {<<"", "">>, <<"bob", "second">>}

\* version create at its prompts: the index commands and version delete of
\* other processes run while it waits, and the input is closed on it; author
\* and description are typed or left empty
NextVersionPrompt ==
    \/ \E ans \in InitAnswers : InitAnswer(ans[1], ans[2], ans[3])
    \/ Add(A, FALSE)
    \/ Remove(A)
    \/ \E p \in {Sub, DotSub} : Add(p, FALSE)
    \/ \E force \in BOOLEAN : VersionCreate(V1, force)
    \/ \E ans \in VersionAnswers : VersionAnswer(ans[1], ans[2])
    \/ VersionEOF
    \/ VersionDelete(V1)
    \/ Tick

SpecVersionPrompt == Init /\ [][NextVersionPrompt]_vars

(***************************************************************************)
(* Properties.                                                             *)
(***************************************************************************)
IndexFrame == UNCHANGED <<files, directories>>
RepositoryFrame == UNCHANGED <<files, directories, versions, vstore, commits, journal>>

\* the storage under commits/latest; a missing directory holds nothing
LatestStorage == IF LATEST \in DOMAIN commits THEN commits[LATEST] ELSE EmptyStorage

\* what the copy loops would put into a snapshot taken now
SnapshotNow == Materialize(files, directories, wt).tree

\* the storage s has become t without a change to what it held: the copied
\* tree is the same, and so is metadata.json once it is written (writing it
\* ends the creation of the storage)
SameContents(s, t) ==
    /\ t.tree = s.tree
    /\ s.meta # <<>> => t.meta = s.meta

\* C1 (snapshot isolation): in every step, a commit storage that exists before
\* and after the step holds the same contents, and so does a version storage
\* unless the step is version create --force of that very name.
C1_SnapshotIsolation ==
    [][ /\ \A c \in (DOMAIN commits \cap DOMAIN commits') \ {LATEST} :
              SameContents(commits[c], commits'[c])
        /\ \A n \in DOMAIN vstore \cap DOMAIN vstore' :
              ~SameContents(vstore[n], vstore'[n]) => VersionCreate(n, TRUE) ]_vars

\* two commits and a version exist, and one of each no longer matches what a
\* snapshot of the current index and working tree would hold
C1_Witness ==
    /\ Cardinality(PushCandidates) = 2
    /\ V1 \in DOMAIN vstore
    /\ \E c \in PushCandidates : commits[c].meta # <<>> /\ commits[c].tree # SnapshotNow
    /\ \E n \in DOMAIN vstore : vstore[n].meta # <<>> /\ vstore[n].tree # SnapshotNow

\* C2 as claimed: the Latest Pointer is empty, or it is an exact copy of
\* exactly one commit storage that exists now.
C2_LatestMirrorsExistingCommit ==
    \/ LatestStorage = EmptyStorage
    \/ Cardinality({c \in PushCandidates : commits[c] = LatestStorage}) = 1

\* C2 as amended: the Latest Pointer starts empty, and it changes only in a
\* successful push, where it becomes an exact copy of the commit storage that
\* is pushed, as that storage is at that moment; commit remove and commit
\* clear leave it as it is, so the commit it mirrors need not exist any more.
\* Stated for the commands that are given a commit identifier: push and
\* commit remove given the reserved name 'latest' are C28 and C27.
C2_LatestIsPushedCopy ==
    /\ LatestStorage = EmptyStorage
    /\ [][ ( /\ LatestStorage' # LatestStorage
             /\ ~(out'.cmd \in {"push", "commit_remove"} /\ out'.arg = LATEST) ) =>
               /\ out'.cmd = "push"
               /\ out'.msg = "pushed"
               /\ out'.arg \in PushCandidates
               /\ LatestStorage' = commits[out'.arg] ]_vars

\* the pushed commit has been removed: the Latest Pointer holds contents that
\* no existing commit holds
C2_Witness ==
    /\ out.cmd \in {"commit_remove", "commit_clear"}
    /\ LatestStorage.meta # <<>>
    /\ \A c \in PushCandidates : commits[c] # LatestStorage

\* C3 (push replaces wholesale): after a successful push of a commit
\* identifier the Latest Pointer holds exactly what that commit holds.
C3_PushReplacesWholesale ==
    (out.cmd = "push" /\ out.msg = "pushed" /\ out.arg # LATEST) =>
        /\ LATEST \in DOMAIN commits
        /\ commits[LATEST] = commits[out.arg]

\* push(idA) then push(idB), where idA holds a file that idB does not
C3_Witness ==
    /\ out.cmd = "push" /\ out.msg = "pushed"
    /\ out.prev \in PushCandidates \ {out.arg}
    /\ out.arg \in PushCandidates
    /\ DOMAIN commits[out.prev].tree \ DOMAIN commits[out.arg].tree # {}

\* C4 (journal monotonic append): in every step the journal before the step
\* is a prefix of the journal after it.
C4_JournalAppendOnly ==
    [][ /\ Len(journal) <= Len(journal')
        /\ SubSeq(journal', 1, Len(journal)) = journal ]_vars

\* a commit was removed or the commits were cleared, and the journal still
\* holds two records, one of a commit whose storage is gone
C4_Witness ==
    /\ out.cmd \in {"commit_remove", "commit_clear"}
    /\ Len(journal) = 2
    /\ \E i \in 1..Len(journal) : journal[i].commit_id \notin DOMAIN commits

\* C5 as claimed (status partition): the Modified, Deleted and Staged sets
\* that status prints are pairwise disjoint and together are tracked_files.
C5_StatusPartition ==
    (out.cmd = "status" /\ out.msg = "ok") =>
        /\ out.modified \cap out.deleted = {}
        /\ out.modified \cap out.staged = {}
        /\ out.deleted \cap out.staged = {}
        /\ out.modified \cup out.deleted \cup out.staged = TrackedFiles

\* the lookup of status for the tracked file f: latest/f is missing, or its
\* bytes differ from those of the working file
LatestLacks(f) ==
    \/ ~Exists(LatestTree, f)
    \/ LatestTree[Norm(f)] # wt[Norm(f)]

C7_StagedAfterPush ==
    (out.cmd = "status" /\ out.msg = "ok") =>
        \A f \in TrackedFiles :
            ( /\ Norm(f) = f
              /\ IsFile(wt, f)
              /\ IsFile(LatestTree, <<Basename(f)>>)
              /\ LatestTree[<<Basename(f)>>] = wt[f] ) =>
                f \in out.staged /\ f \notin out.modified

\* C8 (idempotent add): no path occurs twice in tracked_files, and add of a
\* file that is already tracked leaves the index as it is and reports it as
\* already tracked.
NoDuplicates(fs) == \A i, j \in 1..Len(fs) : fs[i] = fs[j] => i = j

C8_IdempotentAdd ==
    /\ NoDuplicates(files)
    /\ [][ /\ NoDuplicates(files')
           /\ \A p \in {A, DotA, Sub, DotSub, SubA} : \A wf \in BOOLEAN :
                 (out'.cmd = "add" /\ IsFile(wt, p) /\ InList(files, p)
                      /\ Add(p, wf)) =>
                     IndexFrame /\ out'.msg = "already_tracked" ]_vars

\* a tracked file was added again, next to another spelling of the same file
C8_Witness ==
    /\ out.cmd = "add" /\ out.msg = "already_tracked"
    /\ Len(files) >= 2
    /\ Count(files, out.arg) = 1

\* C9 as claimed (forced version overwrite): version create --force of a
\* version that is in the version list and has a storage comes to its prompts
\* with a storage that holds a snapshot of the current index and working
\* tree; once the prompts are answered it reports success, the metadata of
\* the storage lists tracked_files, and the name is in the version list
\* exactly once.
C9_ForcedOverwrite ==
    [][ /\ \A n \in VersionNames :
              ( /\ out'.cmd = "version_create"
                /\ n \in DOMAIN vstore /\ InList(versions, n)
                /\ VersionCreate(n, TRUE) ) =>
                  /\ out'.msg = "prompt"
                  /\ vstore'[n].tree = SnapshotNow
        /\ ( /\ out'.cmd = "version_create"
             /\ versionp # NoPrompt
             /\ versionp.overwrite
             /\ VersionAnswer("", "") ) =>
               /\ out'.msg = "overwritten"
               /\ vstore'[out'.arg].meta # <<>>
               /\ vstore'[out'.arg].meta[1].files = files'
               /\ Count(versions', out'.arg) = 1 ]_vars

\* C10 (failed validation leaves state unchanged): each of the six failing
\* validations reports its error and leaves the index, the versions, the
\* commits, the Latest Pointer and the journal as they were.
C10_FailedValidationNoChange ==
    [][ /\ (out'.cmd = "add" /\ ~Exists(wt, A) /\ Add(A, FALSE)) =>
              out'.msg = "path_not_found" /\ RepositoryFrame
        /\ (out'.cmd = "remove" /\ ~InList(files, A) /\ Remove(A)) =>
              out'.msg \in {"not_tracked", "path_not_found"} /\ RepositoryFrame
        /\ (out'.cmd = "version_create" /\ V1 \in DOMAIN vstore
                /\ VersionCreate(V1, FALSE)) =>
              out'.msg = "already_exists" /\ RepositoryFrame
        /\ (out'.cmd = "version_delete" /\ V1 \notin DOMAIN vstore
                /\ VersionDelete(V1)) =>
              out'.msg = "not_found" /\ RepositoryFrame
        /\ \A id \in CommitIds :
              /\ (out'.cmd = "commit_remove" /\ id \notin DOMAIN commits
                      /\ RemoveCommit(id)) =>
                    out'.msg = "not_found" /\ RepositoryFrame
              /\ (out'.cmd = "push" /\ id \notin DOMAIN commits /\ Push(id)) =>
                    out'.msg = "not_found" /\ RepositoryFrame ]_vars

\* a version create without --force was refused while a version, a commit, a
\* pushed Latest Pointer and a journal record exist
C10_Witness ==
    /\ out.cmd = "version_create" /\ out.msg = "already_exists"
    /\ files # <<>>
    /\ journal # <<>>
    /\ LatestStorage # EmptyStorage
    /\ PushCandidates # {}

\* C11 as claimed (nothing to push): when no commit storage other than latest
\* exists, push with or without an identifier reports that there is nothing
\* to push and leaves the Latest Pointer as it is.
C11_NothingToPush ==
    [][ \A cid \in CommitIds \cup {NoId} :
           (out'.cmd = "push" /\ PushCandidates = {} /\ Push(cid)) =>
               /\ out'.msg = "nothing_to_push"
               /\ LatestStorage' = LatestStorage ]_vars

\* C12 as claimed (commit identifier uniqueness): a commit issued in the
\* second of an existing commit storage creates its storage and comes to its
\* prompts under an identifier that no existing storage has.
C12_SameSecondCommitsSucceed ==
    [][ (out'.cmd = "commit" /\ CommitId(clock) \in DOMAIN commits /\ Commit) =>
           /\ out'.msg = "prompt"
           /\ out'.arg \notin DOMAIN commits
           /\ out'.arg \in DOMAIN commits' ]_vars

\* the journal holds a record of the identifier
HasRecord(id) == \E i \in 1..Len(journal) : journal[i].commit_id = id

\* C13 as claimed (commit atomicity): after a commit attempt has ended, the
\* storage of its identifier, the metadata in that storage and a journal
\* record of the identifier all exist, or none of them does.
C13_CommitAtomic ==
    (out.cmd = "commit" /\ out.msg # "prompt") =>
        \/ /\ out.arg \in DOMAIN commits
           /\ commits[out.arg].meta # <<>>
           /\ HasRecord(out.arg)
        \/ /\ out.arg \notin DOMAIN commits
           /\ ~HasRecord(out.arg)

\* the tracked paths that pass os.path.exists in the copy loop, one entry
\* for each path of the working tree
PresentTracked == {Norm(f) : f \in {g \in TrackedFiles : Exists(wt, g)}}

\* C14 as claimed (snapshot completeness): the snapshot that a commit has
\* taken when its copy loops have run to their end (it waits at its prompts)
\* holds, for every tracked file that exists, a copy of its own with the
\* bytes the file has: the present tracked files map one-to-one to files of
\* the snapshot with equal content.
C14_SnapshotComplete ==
    (out.cmd = "commit" /\ out.msg = "prompt") =>
        LET t == commits[out.arg].tree
        IN \E g \in [PresentTracked -> FilesOf(t)] :
              /\ \A x, y \in PresentTracked : g[x] = g[y] => x = y
              /\ \A x \in PresentTracked : t[g[x]] = wt[x]

\* C15 as claimed (index remove): remove of a path that is in tracked_files
\* or is a tracked directory key leaves the path untracked, whatever the
\* working tree holds; remove of a path in neither set reports an error and
\* leaves the index as it is.
C15_RemoveUntracks ==
    [][ \A p \in {A, DotA, Sub, DotSub, SubA} :
           /\ ( /\ out'.cmd = "remove"
                /\ (InList(files, p) \/ p \in DirKeys(directories))
                /\ Remove(p) ) =>
                  /\ ~InList(files', p)
                  /\ p \notin DirKeys(directories')
           /\ ( /\ out'.cmd = "remove"
                /\ ~InList(files, p)
                /\ p \notin DirKeys(directories)
                /\ Remove(p) ) =>
                  /\ out'.msg \in {"not_tracked", "path_not_found"}
                  /\ IndexFrame ]_vars

\* C16 as claimed (index disjointness): no path is in tracked_files and a key
\* of tracked_directories at the same time.
C16_IndexDisjoint ==
    \A i \in 1..Len(files) : files[i] \notin DirKeys(directories)

\* C17 (commit removal frame): remove_commit of an existing commit deletes the
\* storage of that commit and nothing else: every other storage under
\* commits, the journal, the index and the versions stay as they were.
C17_RemoveCommitFrame ==
    [][ \A id \in CommitIds :
           (out'.cmd = "commit_remove" /\ id \in DOMAIN commits /\ RemoveCommit(id)) =>
               /\ out'.msg = "removed"
               /\ DOMAIN commits' = DOMAIN commits \ {id}
               /\ \A c \in DOMAIN commits' : commits'[c] = commits[c]
               /\ journal' = journal
               /\ UNCHANGED <<files, directories, versions, vstore>> ]_vars

\* a commit was removed while another commit, a pushed Latest Pointer, a
\* version and a tracked file exist; the journal still holds its record
C17_Witness ==
    /\ out.cmd = "commit_remove" /\ out.msg = "removed"
    /\ HasRecord(out.arg)
    /\ PushCandidates # {}
    /\ LatestStorage # EmptyStorage
    /\ V1 \in DOMAIN vstore
    /\ files # <<>>

\* C18 (clear): after commit clear no storage other than latest is left under
\* commits, and the Latest Pointer and the journal are what they were.
C18_ClearKeepsLatestAndJournal ==
    [][ (out'.cmd = "commit_clear" /\ ClearCommits) =>
           /\ DOMAIN commits' \ {LATEST} = {}
           /\ (LATEST \in DOMAIN commits') = (LATEST \in DOMAIN commits)
           /\ LatestStorage' = LatestStorage
           /\ journal' = journal ]_vars

\* the commits were cleared: two journal records and a pushed Latest Pointer
\* are left, and no commit storage
C18_Witness ==
    /\ out.cmd = "commit_clear"
    /\ PushCandidates = {}
    /\ Len(journal) = 2
    /\ LatestStorage.meta # <<>>
    /\ LatestStorage.tree # EmptyTree

\* C19 (diff symmetry of detection): for two versions whose file lists can be
\* read, compare in one order reports "no changes" for exactly the files for
\* which compare in the other order does, and a compare that has run agrees
\* with the compare of the same versions in the other order.
C19_CompareSymmetric ==
    /\ \A a, b \in VersionNames :
          (VersionFilesKnown(a) /\ VersionFilesKnown(b)) =>
              /\ CompareOutcome(a, b) = CompareOutcome(b, a)
              /\ \A f \in AllFiles(a, b) :
                    f \in UnchangedFiles(a, b) <=> f \in UnchangedFiles(b, a)
    /\ (out.cmd = "compare" /\ out.msg = "ok") =>
          /\ out.unchanged = UnchangedFiles(out.arg[2], out.arg[1])
          /\ out.changed = ChangedFiles(out.arg[2], out.arg[1])

\* two different versions were compared: one file is reported without
\* changes, one with changes, and one of the changed files is stored on one
\* side only
C19_Witness ==
    /\ out.cmd = "compare" /\ out.msg = "ok"
    /\ out.arg[1] # out.arg[2]
    /\ out.unchanged # {}
    /\ \E f \in out.changed :
          LoadFileContent(out.arg[1], f) = 0 /\ LoadFileContent(out.arg[2], f) # 0

\* the content a version captured for the tracked path f: the copy loop
\* stores a tracked file under its base name; nothing is captured for a path
\* that is not in the version's file list or was missing
CapturedContent(v, f) ==
    IF InList(LoadVersionFiles(v), f) /\ IsFile(vstore[v].tree, <<Basename(f)>>)
    THEN vstore[v].tree[<<Basename(f)>>].data
    ELSE 0

\* C20 as claimed (diff detection): compare reports every file of the union
\* of the two file lists, and reports changes for it exactly when the content
\* captured for it in the first version differs from the content captured
\* for it in the second (nothing captured counting as empty); stated for the
\* files whose base name no other file of the two lists has.
C20_CompareDetects ==
    (out.cmd = "compare" /\ out.msg = "ok") =>
        LET a == out.arg[1]
            b == out.arg[2]
        IN \A f \in AllFiles(a, b) :
              (\A g \in AllFiles(a, b) : Basename(g) = Basename(f) => Norm(g) = Norm(f)) =>
                  /\ f \in out.changed \cup out.unchanged
                  /\ f \in out.changed <=> CapturedContent(a, f) # CapturedContent(b, f)

\* C21 as claimed (diff per-file failure isolation): when compare meets a
\* file of the union whose stored bytes cannot be decoded as text, it does not
\* abort: every other file of the union still gets its "changes" or "no
\* changes" line.
C21_CompareIsolatesNotText ==
    out.cmd = "compare" =>
        LET a == out.arg[1]
            b == out.arg[2]
            undecodable(f) ==
                \E v \in {a, b} :
                    IsFile(vstore[v].tree, f) /\ vstore[v].tree[Norm(f)].data = NotText
        IN (VersionFilesKnown(a) /\ VersionFilesKnown(b)) =>
              \A f \in AllFiles(a, b) :
                  (undecodable(f) /\ \A g \in AllFiles(a, b) \ {f} : ~undecodable(g)) =>
                      AllFiles(a, b) \ {f} \subseteq out.changed \cup out.unchanged

\* C22 (journal record of a commit): the step in which a commit reports
\* success appends exactly one record to the journal and keeps the records
\* before it; the record is the metadata written in that step into the
\* storage the commit created before its prompt, its identifier names that
\* storage, and its message is the one typed or, for the empty line, the
\* default of the configuration the commit read when it started.
C22_CommitJournalsItsMetadata ==
    [][ \A m \in CommitMessages :
          (out'.cmd = "commit" /\ out'.msg = "created" /\ CommitAnswer(m, "")) =>
              /\ Len(journal') = Len(journal) + 1
              /\ SubSeq(journal', 1, Len(journal)) = journal
              /\ out'.arg \in DOMAIN commits
              /\ commits[out'.arg].meta = <<>>
              /\ commits'[out'.arg].tree = commits[out'.arg].tree
              /\ commits'[out'.arg].meta = <<journal'[Len(journal')]>>
              /\ journal'[Len(journal')].commit_id = out'.arg
              /\ journal'[Len(journal')].message =
                    Or(m, commitp.config.default_commit_message) ]_vars

\* a commit has succeeded whose timestamp is of a later second than its
\* identifier, whose storage another process pushed while it waited at its
\* prompt, and whose message is the built-in default: it started before
\* init had written the configuration and its prompt got the empty line
C22_Witness ==
    /\ out.cmd = "commit" /\ out.msg = "created"
    /\ journal # <<>>
    /\ journal[Len(journal)].message = DefaultCommitMessage
    /\ config # <<>>
    /\ commits[out.arg].meta = <<journal[Len(journal)]>>
    /\ out.arg = CommitId(1)
    /\ journal[Len(journal)].timestamp = 2
    /\ commits[out.arg].tree # EmptyTree
    /\ LatestStorage = [tree |-> commits[out.arg].tree, meta |-> <<>>]

\* C23 (default push target): push without an identifier, run while a commit
\* storage other than 'latest' exists, reports success for the storage with
\* the greatest identifier among the storages that exist at that moment, and
\* the Latest Pointer becomes a copy of that storage.
C23_DefaultPushTarget ==
    [][(out'.cmd = "push" /\ PushCandidates # {} /\ Push(NoId)) =>
          /\ out'.msg = "pushed"
          /\ out'.arg \in PushCandidates
          /\ \A c \in PushCandidates : Rank(c) <= Rank(out'.arg)
          /\ commits'[LATEST] = commits[out'.arg]]_vars

\* the newest commit of the journal has lost its storage, an older storage
\* is the greatest that exists, and it is the one pushed
C23_Witness ==
    /\ out.cmd = "push" /\ out.msg = "pushed"
    /\ Len(journal) = 2
    /\ journal[2].commit_id \notin DOMAIN commits
    /\ out.arg = journal[1].commit_id
    /\ Cardinality(PushCandidates) = 1
    /\ commits[LATEST] = commits[out.arg]

\* the tree t holds a copy of its own of every file of P, with the bytes the
\* file has in the working tree
HoldsEachOf(t, P) ==
    \E g \in [P -> FilesOf(t)] :
        /\ \A x, y \in P : g[x] = g[y] => x = y
        /\ \A x \in P : t[g[x]] = wt[x]

\* C24 as claimed (partial snapshot): a commit taken while a tracked file is
\* missing from the working tree completes: it comes to its prompts with a
\* storage that holds every tracked file that is present, and once they are
\* answered it reports success, its metadata is written and one record is
\* appended to the journal; tracked_files is as it was.
C24_PartialSnapshotCompletes ==
    [][ /\ (out'.cmd = "commit" /\ (\E f \in TrackedFiles : ~Exists(wt, f)) /\ Commit) =>
              /\ out'.msg = "prompt"
              /\ out'.arg \in DOMAIN commits'
              /\ HoldsEachOf(commits'[out'.arg].tree, PresentTracked)
              /\ files' = files
        /\ (out'.cmd = "commit" /\ (\E f \in TrackedFiles : ~Exists(wt, f))
                /\ CommitAnswer("m", "")) =>
              /\ out'.msg = "created"
              /\ Len(journal') = Len(journal) + 1
              /\ commits'[out'.arg].meta = <<journal'[Len(journal')]>>
              /\ files' = files ]_vars

\* C25 as claimed (version registry consistency): in every reachable state
\* in which no command waits at a prompt, a name is in the version list
\* exactly when the storage versions/<name> exists, and no name is in the
\* list twice.
C25_VersionRegistryConsistent ==
    Quiet =>
        /\ \A n \in VersionNames : InList(versions, n) <=> n \in DOMAIN vstore
        /\ \A n \in VersionNames : Count(versions, n) <= 1

\* list_commits(): one line for every name in COMMITS_DIR
ListCommits == DOMAIN commits

\* list_commit_history(): one entry for every record of commit_history.json
ListCommitHistory == {journal[i].commit_id : i \in 1..Len(journal)}

\* C26 as claimed (listed commits are in the history): in every reachable
\* state in which no command waits at a prompt, every commit storage other
\* than 'latest' has a journal record with its identifier: what list shows,
\* 'latest' aside, is among what history shows.
C26_ListedCommitsInHistory ==
    Quiet => ListCommits \ {LATEST} \subseteq ListCommitHistory

\* C27 as claimed (only push changes the Latest Pointer): a step of commit,
\* of remove_commit with any identifier, the reserved name 'latest' included,
\* or of clear_commits neither deletes commits/latest nor changes what it
\* holds.
C27_OnlyPushChangesLatest ==
    [][(out'.cmd \in {"commit", "commit_remove", "commit_clear"}) =>
          /\ LATEST \in DOMAIN commits <=> LATEST \in DOMAIN commits'
          /\ LatestStorage' = LatestStorage]_vars

\* C28 as claimed (reserved identifier on push): push with the identifier
\* 'latest' does not report success and leaves the Latest Pointer as it was.
C28_PushLatestRefused ==
    [][(out'.cmd = "push" /\ Push(LATEST)) =>
          /\ out'.msg # "pushed"
          /\ LATEST \in DOMAIN commits <=> LATEST \in DOMAIN commits'
          /\ LatestStorage' = LatestStorage]_vars

====
